---- MODULE Spec2Model ----
(***************************************************************************)
(* A model of jayhale/triangles: the 15-hole triangular peg-solitaire      *)
(* board (triangles/models.py), the breadth-first search and the symmetry  *)
(* canonicalizer (triangles/commands.py).                                  *)
(*                                                                         *)
(* Board layout (models.py, class docstring):                              *)
(*      0     1     2     3     4                                          *)
(*         5     6     7     8                                             *)
(*            9     10    11                                               *)
(*               12    13                                                  *)
(*                  14                                                     *)
(***************************************************************************)
EXTENDS Integers, Sequences, FiniteSets, Bags, TLC

VARIABLES
    pins,                   \* Board._pins of the board under test
    pins0,                  \* Board._pins before the first call on that board
    call,                   \* the last Board method call: its name, arguments, outcome
    pc,                     \* position of the running command
    boards,                 \* solve: the frontier list `boards`
    won_boards,             \* solve: the accumulated `won_boards`
    lost_boards,            \* solve: the accumulated `lost_boards`
    gens,                   \* solve: what each increment_boards call was given and returned
    configurations,         \* findtransformations: session.query(Configuration).all(), as ids
    idx,                    \* findtransformations: how many configurations were processed
    unique_configurations,  \* findtransformations: the list of (configuration, board) pairs
    transformations,        \* findtransformations: the Transformation rows added to the session
    objects,                \* the Board objects alive, in order of creation
    dicts,                  \* the _pins dictionaries alive, in order of creation
    calls                   \* how many mutating calls were made on these objects

vars == <<pins, pins0, call, pc, boards, won_boards, lost_boards, gens,
          configurations, idx, unique_configurations, transformations,
          objects, dicts, calls>>

boardVars == <<pins, pins0, call>>
searchVars == <<boards, won_boards, lost_boards, gens>>
canonVars == <<configurations, idx, unique_configurations, transformations>>
heapVars == <<objects, dicts, calls>>

(***************************************************************************)
(* Program constants                                                       *)
(***************************************************************************)
NumPositions == 15
MaxPosition == 14
DefaultEmptyPosition == 14

Positions == 0..(NumPositions - 1)
AllPins == [Positions -> BOOLEAN]

(***************************************************************************)
(* Board                                                                   *)
(***************************************************************************)
\* _validate_position as it would be with the upper limit one too high
validate_position_accepts_15(position) == 0 <= position /\ position <= MaxPosition + 1

\* Board._validate_position: raises ValueError unless 0 <= position <= 14
validate_position(position) == 0 <= position /\ position <= MaxPosition

\* Board.__init__: every position occupied but empty_position
Board_init(empty_position) ==
    [position \in Positions |-> IF position = empty_position THEN FALSE ELSE TRUE]

\* Board.pin_status / Board.set_pin_status on a validated position
pin_status(p, position) == p[position]

set_pin_status(p, position, status) == [p EXCEPT ![position] = status]

\* Board.__eq__: the pins agree at every position of the other board
Board_eq(p, q) == ~(FALSE \in {pin_status(p, pos) = q[pos] : pos \in DOMAIN q})

\* is_won as it would be if it compared the number of pins with 0
is_won_none_left(p) == Cardinality({pos \in DOMAIN p : p[pos] = TRUE}) = 0

\* Board.is_won: exactly one pin is left
is_won(p) == Cardinality({pos \in DOMAIN p : p[pos] = TRUE}) = 1

\* The rule table as it would be with one slip of the pen: the jump from 10 to 3
\* removes the pin at 6, not the pin at 7
valid_moves_for_position_slip(position) ==
    CASE position = 0 -> << <<0, 2, 1>>, <<0, 9, 5>> >>
      [] position = 1 -> << <<1, 3, 2>>, <<1, 10, 6>> >>
      [] position = 2 -> << <<2, 0, 1>>, <<2, 9, 6>>, <<2, 11, 7>>, <<2, 4, 3>> >>
      [] position = 3 -> << <<3, 1, 2>>, <<3, 10, 7>> >>
      [] position = 4 -> << <<4, 2, 3>>, <<4, 11, 8>> >>
      [] position = 5 -> << <<5, 7, 6>>, <<5, 12, 9>> >>
      [] position = 6 -> << <<6, 8, 7>>, <<6, 13, 10>> >>
      [] position = 7 -> << <<7, 5, 6>>, <<7, 12, 10>> >>
      [] position = 8 -> << <<8, 6, 7>>, <<8, 13, 11>> >>
      [] position = 9 -> << <<9, 0, 5>>, <<9, 2, 6>>, <<9, 11, 10>>, <<9, 14, 12>> >>
      [] position = 10 -> << <<10, 1, 6>>, <<10, 3, 6>> >>
      [] position = 11 -> << <<11, 4, 8>>, <<11, 2, 7>>, <<11, 9, 10>>, <<11, 14, 13>> >>
      [] position = 12 -> << <<12, 5, 9>>, <<12, 7, 10>> >>
      [] position = 13 -> << <<13, 6, 10>>, <<13, 8, 11>> >>
      [] OTHER -> << <<14, 9, 12>>, <<14, 11, 13>> >>

\* Board.valid_moves_for_position: the rule table, (start, end, jump) triples
valid_moves_for_position(position) ==
    CASE position = 0 -> << <<0, 2, 1>>, <<0, 9, 5>> >>
      [] position = 1 -> << <<1, 3, 2>>, <<1, 10, 6>> >>
      [] position = 2 -> << <<2, 0, 1>>, <<2, 9, 6>>, <<2, 11, 7>>, <<2, 4, 3>> >>
      [] position = 3 -> << <<3, 1, 2>>, <<3, 10, 7>> >>
      [] position = 4 -> << <<4, 2, 3>>, <<4, 11, 8>> >>
      [] position = 5 -> << <<5, 7, 6>>, <<5, 12, 9>> >>
      [] position = 6 -> << <<6, 8, 7>>, <<6, 13, 10>> >>
      [] position = 7 -> << <<7, 5, 6>>, <<7, 12, 10>> >>
      [] position = 8 -> << <<8, 6, 7>>, <<8, 13, 11>> >>
      [] position = 9 -> << <<9, 0, 5>>, <<9, 2, 6>>, <<9, 11, 10>>, <<9, 14, 12>> >>
      [] position = 10 -> << <<10, 1, 6>>, <<10, 3, 7>> >>
      [] position = 11 -> << <<11, 4, 8>>, <<11, 2, 7>>, <<11, 9, 10>>, <<11, 14, 13>> >>
      [] position = 12 -> << <<12, 5, 9>>, <<12, 7, 10>> >>
      [] position = 13 -> << <<13, 6, 10>>, <<13, 8, 11>> >>
      [] OTHER -> << <<14, 9, 12>>, <<14, 11, 13>> >>

\* move as it would be if the jumped pin were left on the board
move_keeps_jump(p, start, end, jump) ==
    IF ~validate_position(start) \/ ~validate_position(end) \/ ~validate_position(jump)
    THEN [pins |-> p, raised |-> TRUE]
    ELSE IF ~pin_status(p, start) THEN [pins |-> p, raised |-> TRUE]
    ELSE IF pin_status(p, end) THEN [pins |-> p, raised |-> TRUE]
    ELSE IF ~pin_status(p, jump) THEN [pins |-> p, raised |-> TRUE]
    ELSE [pins |-> set_pin_status(set_pin_status(p, start, FALSE), end, TRUE),
          raised |-> FALSE]

\* move as it would be if start were emptied before end and jump are looked at
move_empties_start_first(p, start, end, jump) ==
    IF ~validate_position(start) \/ ~validate_position(end) \/ ~validate_position(jump)
    THEN [pins |-> p, raised |-> TRUE]
    ELSE IF ~pin_status(p, start) THEN [pins |-> p, raised |-> TRUE]
    ELSE IF pin_status(p, end)
    THEN [pins |-> set_pin_status(p, start, FALSE), raised |-> TRUE]
    ELSE IF ~pin_status(p, jump)
    THEN [pins |-> set_pin_status(p, start, FALSE), raised |-> TRUE]
    ELSE [pins |-> set_pin_status(
                       set_pin_status(set_pin_status(p, start, FALSE), jump, FALSE),
                       end, TRUE),
          raised |-> FALSE]

\* Board.move: the three range checks, the three occupancy checks, then the update.
\* raised = TRUE stands for the ValueError; the pins are those the call leaves behind.
move(p, start, end, jump) ==
    IF ~validate_position(start) \/ ~validate_position(end) \/ ~validate_position(jump)
    THEN [pins |-> p, raised |-> TRUE]
    ELSE IF ~pin_status(p, start) THEN [pins |-> p, raised |-> TRUE]
    ELSE IF pin_status(p, end) THEN [pins |-> p, raised |-> TRUE]
    ELSE IF ~pin_status(p, jump) THEN [pins |-> p, raised |-> TRUE]
    ELSE [pins |-> set_pin_status(
                       set_pin_status(set_pin_status(p, start, FALSE), jump, FALSE),
                       end, TRUE),
          raised |-> FALSE]

\* occupied_positions as it would be if the positions were listed from 14 down to 0
RECURSIVE occupied_down_from(_, _)
occupied_down_from(p, position) ==
    IF position < 0 THEN <<>>
    ELSE (IF p[position] = TRUE THEN <<position>> ELSE <<>>)
         \o occupied_down_from(p, position - 1)

occupied_positions_descending(p) == occupied_down_from(p, MaxPosition)

\* Board.occupied_positions: the occupied positions in dict order, which is 0..14
RECURSIVE occupied_from(_, _)
occupied_from(p, position) ==
    IF position > MaxPosition THEN <<>>
    ELSE (IF p[position] = TRUE THEN <<position>> ELSE <<>>)
         \o occupied_from(p, position + 1)

occupied_positions(p) == occupied_from(p, 0)

\* moves_for_position's loop as it would be without the check of the jump position
RECURSIVE moves_filter_no_jump_check(_, _, _)
moves_filter_no_jump_check(p, rules, i) ==
    IF i > Len(rules) THEN <<>>
    ELSE (IF pin_status(p, rules[i][2]) THEN <<>> ELSE <<rules[i]>>)
         \o moves_filter_no_jump_check(p, rules, i + 1)

\* Board.moves_for_position: the rule-table moves of an occupied position whose end
\* is empty and whose jump is occupied, in rule-table order
RECURSIVE moves_filter(_, _, _)
moves_filter(p, rules, i) ==
    IF i > Len(rules) THEN <<>>
    ELSE (IF pin_status(p, rules[i][2]) THEN <<>>
          ELSE IF ~pin_status(p, rules[i][3]) THEN <<>>
          ELSE <<rules[i]>>)
         \o moves_filter(p, rules, i + 1)

moves_for_position(p, position) ==
    IF ~p[position] THEN <<>>
    ELSE moves_filter(p, valid_moves_for_position(position), 1)

\* Board.moves: moves_for_position over the occupied positions, concatenated
RECURSIVE moves_extend(_, _, _)
moves_extend(p, occupied, i) ==
    IF i > Len(occupied) THEN <<>>
    ELSE moves_for_position(p, occupied[i]) \o moves_extend(p, occupied, i + 1)

moves(p) == moves_extend(p, occupied_positions(p), 1)

\* The tables as they would be with one slip of the pen: in the clockwise rotation the
\* new positions of 6 and 7 are exchanged
valid_transformations_slip ==
    << [desc |-> "Reflection",
        tx |-> << <<0, 4>>, <<1, 3>>, <<2, 2>>, <<3, 1>>, <<4, 0>>,
                  <<5, 8>>, <<6, 7>>, <<7, 6>>, <<8, 5>>,
                  <<9, 11>>, <<10, 10>>, <<11, 9>>,
                  <<12, 13>>, <<13, 12>>,
                  <<14, 14>> >>],
       [desc |-> "Clockwise rotation",
        tx |-> << <<0, 14>>, <<1, 12>>, <<2, 9>>, <<3, 5>>, <<4, 0>>,
                  <<5, 13>>, <<6, 6>>, <<7, 10>>, <<8, 1>>,
                  <<9, 11>>, <<10, 7>>, <<11, 2>>,
                  <<12, 8>>, <<13, 3>>,
                  <<14, 4>> >>],
       [desc |-> "Counter-clockwise rotation",
        tx |-> << <<0, 4>>, <<1, 8>>, <<2, 11>>, <<3, 13>>, <<4, 14>>,
                  <<5, 3>>, <<6, 7>>, <<7, 10>>, <<8, 12>>,
                  <<9, 2>>, <<10, 6>>, <<11, 9>>,
                  <<12, 1>>, <<13, 5>>,
                  <<14, 0>> >>],
       [desc |-> "Clockwise rotation and reflection",
        tx |-> << <<0, 0>>, <<1, 5>>, <<2, 9>>, <<3, 12>>, <<4, 14>>,
                  <<5, 1>>, <<6, 6>>, <<7, 10>>, <<8, 13>>,
                  <<9, 2>>, <<10, 7>>, <<11, 11>>,
                  <<12, 3>>, <<13, 8>>,
                  <<14, 4>> >>],
       [desc |-> "Counter-clockwise rotation and reflection",
        tx |-> << <<0, 14>>, <<1, 13>>, <<2, 11>>, <<3, 8>>, <<4, 4>>,
                  <<5, 12>>, <<6, 10>>, <<7, 7>>, <<8, 3>>,
                  <<9, 9>>, <<10, 6>>, <<11, 2>>,
                  <<12, 5>>, <<13, 1>>,
                  <<14, 0>> >>] >>

\* Board.valid_transformations: (description, position substitutions) in source order;
\* a substitution is (previous position, new position)
valid_transformations ==
    << [desc |-> "Reflection",
        tx |-> << <<0, 4>>, <<1, 3>>, <<2, 2>>, <<3, 1>>, <<4, 0>>,
                  <<5, 8>>, <<6, 7>>, <<7, 6>>, <<8, 5>>,
                  <<9, 11>>, <<10, 10>>, <<11, 9>>,
                  <<12, 13>>, <<13, 12>>,
                  <<14, 14>> >>],
       [desc |-> "Clockwise rotation",
        tx |-> << <<0, 14>>, <<1, 12>>, <<2, 9>>, <<3, 5>>, <<4, 0>>,
                  <<5, 13>>, <<6, 10>>, <<7, 6>>, <<8, 1>>,
                  <<9, 11>>, <<10, 7>>, <<11, 2>>,
                  <<12, 8>>, <<13, 3>>,
                  <<14, 4>> >>],
       [desc |-> "Counter-clockwise rotation",
        tx |-> << <<0, 4>>, <<1, 8>>, <<2, 11>>, <<3, 13>>, <<4, 14>>,
                  <<5, 3>>, <<6, 7>>, <<7, 10>>, <<8, 12>>,
                  <<9, 2>>, <<10, 6>>, <<11, 9>>,
                  <<12, 1>>, <<13, 5>>,
                  <<14, 0>> >>],
       [desc |-> "Clockwise rotation and reflection",
        tx |-> << <<0, 0>>, <<1, 5>>, <<2, 9>>, <<3, 12>>, <<4, 14>>,
                  <<5, 1>>, <<6, 6>>, <<7, 10>>, <<8, 13>>,
                  <<9, 2>>, <<10, 7>>, <<11, 11>>,
                  <<12, 3>>, <<13, 8>>,
                  <<14, 4>> >>],
       [desc |-> "Counter-clockwise rotation and reflection",
        tx |-> << <<0, 14>>, <<1, 13>>, <<2, 11>>, <<3, 8>>, <<4, 4>>,
                  <<5, 12>>, <<6, 10>>, <<7, 7>>, <<8, 3>>,
                  <<9, 9>>, <<10, 6>>, <<11, 2>>,
                  <<12, 5>>, <<13, 1>>,
                  <<14, 0>> >>] >>

\* transform as it would be without the snapshot: each substitution reads the pins
\* the earlier substitutions have already written
RECURSIVE transform_loop_in_place(_, _, _)
transform_loop_in_place(p, position_substitutions, i) ==
    IF i > Len(position_substitutions) THEN [pins |-> p, raised |-> FALSE]
    ELSE LET prev_pos == position_substitutions[i][1]
             new_pos == position_substitutions[i][2]
         IN  IF ~validate_position(prev_pos) \/ ~validate_position(new_pos)
             THEN [pins |-> p, raised |-> TRUE]
             ELSE transform_loop_in_place(set_pin_status(p, new_pos, p[prev_pos]),
                                          position_substitutions, i + 1)

transform_in_place(p, position_substitutions) ==
    transform_loop_in_place(p, position_substitutions, 1)

\* Board.transform: snapshot the pins, then one set_pin_status per substitution, in
\* order, each after its two range checks; a ValueError stops the loop where it is
RECURSIVE transform_loop(_, _, _, _)
transform_loop(p, prev_pins, position_substitutions, i) ==
    IF i > Len(position_substitutions) THEN [pins |-> p, raised |-> FALSE]
    ELSE LET prev_pos == position_substitutions[i][1]
             new_pos == position_substitutions[i][2]
         IN  IF ~validate_position(prev_pos) \/ ~validate_position(new_pos)
             THEN [pins |-> p, raised |-> TRUE]
             ELSE transform_loop(set_pin_status(p, new_pos, prev_pins[prev_pos]),
                                 prev_pins, position_substitutions, i + 1)

transform(p, position_substitutions) == transform_loop(p, p, position_substitutions, 1)

(***************************************************************************)
(* Board methods called on one board                                       *)
(***************************************************************************)
\* How far the arbitrary (start, end, jump) arguments of Board.move range
MaxArgPos == 1

\* In-range and out-of-range arguments tried for a position
InRangeArgs == 0..MaxArgPos

OutOfRangeArgs == {0 - 1, MaxPosition + 1}

RuleTriples ==
    {valid_moves_for_position(pos)[i] : pos \in Positions, i \in 1..2} \cup
    {valid_moves_for_position(pos)[i] : pos \in {2, 9, 11}, i \in 3..4}

\* The (start, end, jump) arguments of a call of move: the rule table's triples, every
\* triple over InRangeArgs (repeated positions included), and those with one position
\* out of range
MoveArgs ==
    RuleTriples
    \cup (InRangeArgs \X InRangeArgs \X InRangeArgs)
    \cup (OutOfRangeArgs \X InRangeArgs \X InRangeArgs)
    \cup (InRangeArgs \X OutOfRangeArgs \X InRangeArgs)
    \cup (InRangeArgs \X InRangeArgs \X OutOfRangeArgs)

NoCall == [op |-> "none", args |-> <<>>, raised |-> FALSE, ret |-> <<>>]

\* The variables a specification does not use stay at these values
IdleSearch ==
    boards = <<>> /\ won_boards = <<>> /\ lost_boards = <<>> /\ gens = <<>>

IdleCanon ==
    /\ configurations = <<>> /\ idx = 0
    /\ unique_configurations = <<>> /\ transformations = <<>>

IdleBoard ==
    pins = Board_init(DefaultEmptyPosition) /\ pins0 = pins /\ call = NoCall

IdleHeap ==
    objects = <<>> /\ dicts = <<>> /\ calls = 0

\* A board of any of the 2^15 occupancies, before any call on it
InitBoard ==
    /\ pins \in AllPins
    /\ pins0 = pins
    /\ call = NoCall
    /\ pc = "board"
    /\ IdleSearch
    /\ IdleCanon
    /\ IdleHeap

\* board.move(start, end, jump)
Move ==
    /\ pc = "board" /\ call.op = "none"
    /\ \E args \in MoveArgs :
          \E r \in {move(pins, args[1], args[2], args[3])} :
              /\ pins' = r.pins
              /\ call' = [op |-> "move", args |-> args, raised |-> r.raised, ret |-> <<>>]
    /\ UNCHANGED <<pins0, pc, searchVars, canonVars, heapVars>>

\* board.moves()
Moves ==
    /\ pc = "board" /\ call.op = "none"
    /\ call' = [op |-> "moves", args |-> <<>>, raised |-> FALSE, ret |-> moves(pins)]
    /\ UNCHANGED <<pins, pins0, pc, searchVars, canonVars, heapVars>>

\* for start, end, jump in board.moves(): board.move(start, end, jump), one iteration
\* of it: the way increment_boards calls move
MoveAvailable ==
    /\ pc = "board" /\ call.op = "none"
    /\ \E available \in {moves(pins)} :
          \E i \in DOMAIN available :
              \E r \in {move(pins, available[i][1], available[i][2], available[i][3])} :
                  /\ pins' = r.pins
                  /\ call' = [op |-> "moves_move", args |-> available[i],
                              raised |-> r.raised, ret |-> available]
    /\ UNCHANGED <<pins0, pc, searchVars, canonVars, heapVars>>

NextMove == Move \/ Moves \/ MoveAvailable

\* One call of move or moves on a board of any occupancy
Spec == InitBoard /\ [][NextMove]_vars

\* The substitution lists a call of transform is given: k in 1..5 is the k-th table of
\* valid_transformations, k + 5 is that table with every (from, to) pair swapped
NumTransformations == Len(valid_transformations)

swapped(position_substitutions) ==
    [i \in DOMAIN position_substitutions |->
        <<position_substitutions[i][2], position_substitutions[i][1]>>]

Substitutions(k) ==
    IF k <= NumTransformations THEN valid_transformations[k].tx
    ELSE swapped(valid_transformations[k - NumTransformations].tx)

\* board.transform(tx), the first call on the board
Transform ==
    /\ pc = "board" /\ call.op = "none"
    /\ \E k \in 1..NumTransformations :
          \E r \in {transform(pins, Substitutions(k))} :
              /\ pins' = r.pins
              /\ call' = [op |-> "transform", args |-> <<k>>, raised |-> r.raised,
                          ret |-> <<>>]
    /\ UNCHANGED <<pins0, pc, searchVars, canonVars, heapVars>>

\* board.transform(tx2) on the transformed board: any of the five tables, or the first
\* call's table with its pairs swapped
TransformAgain ==
    /\ pc = "board" /\ call.op = "transform" /\ Len(call.args) = 1 /\ ~call.raised
    /\ \E k \in (1..NumTransformations) \cup {call.args[1] + NumTransformations} :
          \E r \in {transform(pins, Substitutions(k))} :
              /\ pins' = r.pins
              /\ call' = [op |-> "transform", args |-> Append(call.args, k),
                          raised |-> r.raised, ret |-> <<>>]
    /\ UNCHANGED <<pins0, pc, searchVars, canonVars, heapVars>>

NextTransform == Transform \/ TransformAgain

\* Up to two calls of transform on a board of any occupancy
SpecTransform == InitBoard /\ [][NextTransform]_vars

(***************************************************************************)
(* Claims about Board                                                      *)
(***************************************************************************)
PegCount(p) == Cardinality({pos \in Positions : p[pos]})

Range(seq) == {seq[i] : i \in DOMAIN seq}

\* C1: move(start, end, jump) with the three positions in 0..14 raises ValueError
\* exactly when start is not occupied, or end is occupied, or jump is not occupied;
\* otherwise start and jump end up empty, end occupied, and every other position is
\* as it was.
C1_MoveContract ==
    (call.op = "move" /\ Range(call.args) \subseteq Positions) =>
        LET start == call.args[1]
            end == call.args[2]
            jump == call.args[3]
        IN  /\ call.raised <=> (~pins0[start] \/ pins0[end] \/ ~pins0[jump])
            /\ ~call.raised =>
                  /\ pins[start] = FALSE /\ pins[jump] = FALSE /\ pins[end] = TRUE
                  /\ \A pos \in Positions \ {start, end, jump} : pins[pos] = pins0[pos]

\* A move that succeeded on a board, and changed it
C1_Witness ==
    /\ call.op = "move" /\ ~call.raised
    /\ Range(call.args) \subseteq Positions
    /\ Cardinality(Range(call.args)) = 3
    /\ pins # pins0

\* C2: on every board, every triple that moves() returns is applied by move without
\* an error, and the number of occupied positions goes down by exactly 1.
C2_AvailableMoveSucceeds ==
    call.op = "moves_move" =>
        /\ call.args \in Range(call.ret)
        /\ ~call.raised
        /\ PegCount(pins) = PegCount(pins0) - 1

\* A triple of moves() was applied to a board with more than one available move
C2_Witness ==
    /\ call.op = "moves_move" /\ Len(call.ret) > 1
    /\ call.args = call.ret[Len(call.ret)]
    /\ PegCount(pins) = PegCount(pins0) - 1

\* The place of a triple in the rule table of its start position
RuleIndex(t) ==
    CHOOSE i \in DOMAIN valid_moves_for_position(t[1]) :
        valid_moves_for_position(t[1])[i] = t

\* C3: moves() returns exactly the rule-table triples whose start is occupied, end is
\* empty and jump is occupied, each once, by ascending start position and, within one
\* start, in rule-table order; on Board(empty_position=14) that is (9,14,12), (11,14,13).
C3_MovesExact ==
    call.op = "moves" =>
        /\ Range(call.ret) =
              {t \in RuleTriples : pins0[t[1]] /\ ~pins0[t[2]] /\ pins0[t[3]]}
        /\ \A i, j \in DOMAIN call.ret :
              i < j =>
                 \/ call.ret[i][1] < call.ret[j][1]
                 \/ /\ call.ret[i][1] = call.ret[j][1]
                    /\ RuleIndex(call.ret[i]) < RuleIndex(call.ret[j])
        /\ pins0 = Board_init(14) => call.ret = << <<9, 14, 12>>, <<11, 14, 13>> >>

\* moves() was called on the board with position 14 empty, and on a board where one
\* start position has two available moves
C3_Witness ==
    /\ call.op = "moves"
    /\ \/ pins0 = Board_init(14)
       \/ \E i, j \in DOMAIN call.ret : i < j /\ call.ret[i][1] = call.ret[j][1]
    /\ Len(call.ret) >= 2

\* C10: transforming a board by one of the five tables and then by that table with its
\* pairs swapped gives back the board; Reflection and the two compound transformations
\* undo themselves, and Clockwise rotation and Counter-clockwise rotation undo each other.
C10_InverseRestores ==
    (call.op = "transform" /\ Len(call.args) = 2) =>
        LET k1 == call.args[1]
            k2 == call.args[2]
        IN  /\ k2 = k1 + NumTransformations => (~call.raised /\ Board_eq(pins, pins0))
            /\ <<valid_transformations[k1].desc,
                 IF k2 <= NumTransformations THEN valid_transformations[k2].desc ELSE ""
               >> \in
                 { <<"Reflection", "Reflection">>,
                   <<"Clockwise rotation and reflection",
                     "Clockwise rotation and reflection">>,
                   <<"Counter-clockwise rotation and reflection",
                     "Counter-clockwise rotation and reflection">>,
                   <<"Clockwise rotation", "Counter-clockwise rotation">>,
                   <<"Counter-clockwise rotation", "Clockwise rotation">> }
                => (~call.raised /\ Board_eq(pins, pins0))

\* A board that the first transformation changed was transformed back by the swapped
\* table
C10_Witness ==
    /\ call.op = "transform" /\ Len(call.args) = 2
    /\ call.args[2] = call.args[1] + NumTransformations
    /\ pins = pins0
    /\ transform(pins0, Substitutions(call.args[1])).pins # pins0

(***************************************************************************)
(* The search: commands.solve and commands.increment_boards                *)
(*                                                                         *)
(* A board object is a record: its pins, its empty_position and its        *)
(* previous_board, which is <<>> for None and <<parent>> otherwise.        *)
(***************************************************************************)
\* Board(empty_position, previous_board)
Board_new(empty_position, previous_board) ==
    [pins |-> Board_init(empty_position),
     empty_position |-> empty_position,
     previous_board |-> previous_board]

\* '{:015b}'.format(conf_id): the binary digits of conf_id, most significant first,
\* padded with zeros to 15 characters (longer when conf_id >= 2^15)
RECURSIVE binary_digits(_)
binary_digits(n) ==
    IF n < 2 THEN <<IF n = 1 THEN "1" ELSE "0">>
    ELSE Append(binary_digits(n \div 2), IF n % 2 = 1 THEN "1" ELSE "0")

format_015b(conf_id) ==
    LET digits == binary_digits(conf_id)
    IN  [i \in 1..(NumPositions - Len(digits)) |-> "0"] \o digits

\* Board.from_configuration_id: a default board whose pin at position pos is set from
\* the character at index pos of the key
from_configuration_id(conf_id) ==
    LET key == format_015b(conf_id)
    IN  [Board_new(DefaultEmptyPosition, <<>>) EXCEPT
            !.pins = [pos \in Positions |-> key[pos + 1] = "1"]]

\* Board.__str__ as it would be if the pins were joined from position 14 down to 0
Board_str_reversed(p) ==
    [i \in 1..NumPositions |-> IF p[NumPositions - i] THEN "1" ELSE "0"]

\* Board.__str__ and int(str(board), 2): the configuration id of a board
Board_str(p) == [i \in 1..NumPositions |-> IF p[i - 1] THEN "1" ELSE "0"]

RECURSIVE int_base2(_)
int_base2(str) ==
    IF str = <<>> THEN 0
    ELSE 2 * int_base2(SubSeq(str, 1, Len(str) - 1))
         + (IF str[Len(str)] = "1" THEN 1 ELSE 0)

configuration_id(p) == int_base2(Board_str(p))

\* Board.copy as it would be if the new board were given the original's
\* previous_board, not the original
copy_keeps_previous_board(board) ==
    [Board_new(board.empty_position, board.previous_board) EXCEPT
        !.pins = [position \in Positions |-> board.pins[position]]]

\* Board.copy: a new board with the same empty_position, every pin set to the
\* original's, and previous_board the board copied
copy(board) ==
    [Board_new(board.empty_position, <<board>>) EXCEPT
        !.pins = [position \in Positions |-> board.pins[position]]]

NoBoards == [new_boards |-> <<>>, won_boards |-> <<>>, lost_boards |-> <<>>]

\* increment_boards, the inner loop: one copy of the board per move, the move applied
\* to it, appended to won_boards if it is won and to new_boards otherwise
RECURSIVE increment_moves(_, _, _, _)
increment_moves(board, available, k, out) ==
    IF k > Len(available) THEN out
    ELSE LET new_board ==
                 [copy(board) EXCEPT
                     !.pins = move(board.pins, available[k][1], available[k][2],
                                   available[k][3]).pins]
         IN  IF is_won(new_board.pins)
             THEN increment_moves(board, available, k + 1,
                      [out EXCEPT !.won_boards = Append(@, new_board)])
             ELSE increment_moves(board, available, k + 1,
                      [out EXCEPT !.new_boards = Append(@, new_board)])

\* increment_boards' body as it would be if a board without moves were dropped, not
\* kept as lost (the loop body of core.increment_boards)
increment_board_drops_lost(board) ==
    IF Len(moves(board.pins)) < 1 THEN NoBoards
    ELSE increment_moves(board, moves(board.pins), 1, NoBoards)

\* increment_boards' body as it would be if a board with fewer than two moves were
\* taken for a dead end
increment_board_lost_below_two(board) ==
    IF Len(moves(board.pins)) < 2 THEN [NoBoards EXCEPT !.lost_boards = <<board>>]
    ELSE increment_moves(board, moves(board.pins), 1, NoBoards)

\* increment_boards, the body of the outer loop for one board: what it appends to the
\* three lists; a board without moves goes to lost_boards
increment_board(board) ==
    IF Len(moves(board.pins)) < 1 THEN [NoBoards EXCEPT !.lost_boards = <<board>>]
    ELSE increment_moves(board, moves(board.pins), 1, NoBoards)

\* increment_boards, the outer loop over boards[lo..hi]: the appends of each board in
\* list order. The range is split in halves so that a long frontier is not one deep
\* recursion; the lists are the same as those of the loop from lo to hi.
RECURSIVE increment_loop(_, _, _)
increment_loop(frontier, lo, hi) ==
    IF lo > hi THEN NoBoards
    ELSE IF lo = hi THEN increment_board(frontier[lo])
    ELSE LET mid == (lo + hi) \div 2
         IN  \* bound once each, then appended list by list
             CHOOSE out \in
                 {[new_boards |-> l.new_boards \o r.new_boards,
                   won_boards |-> l.won_boards \o r.won_boards,
                   lost_boards |-> l.lost_boards \o r.lost_boards] :
                      l \in {increment_loop(frontier, lo, mid)},
                      r \in {increment_loop(frontier, mid + 1, hi)}} : TRUE

increment_boards(frontier) == increment_loop(frontier, 1, Len(frontier))

\* solve's accumulation as it would be if each generation's list replaced the
\* accumulated one (as core.find_solutions assigns won_boards)
replace_with(accumulated, new_list) == new_list

\* solve: if new_won_boards: won_boards.extend(new_won_boards), and the same for lost
extend_if_any(accumulated, new_list) ==
    IF new_list # <<>> THEN accumulated \o new_list ELSE accumulated

\* The tree below a board Board(empty_position) has millions of boards. The runs from
\* these 15 boards are followed for MaxGenerations generations; the runs followed to
\* their end start from a board late in a game, with 2..MaxRootPegs pegs.
MaxRootPegs == 5

MaxGenerations == 3

StartBoards == {Board_new(empty_position, <<>>) : empty_position \in Positions}

LateBoards ==
    {[Board_new(DefaultEmptyPosition, <<>>) EXCEPT !.pins = p] :
        p \in {q \in AllPins :
                 LET n == Cardinality({pos \in Positions : q[pos]})
                 IN  2 <= n /\ n <= MaxRootPegs}}

\* solve: boards = [Board(empty_position=empty_position)], won_boards = [], lost_boards = []
InitSearch ==
    /\ pc = "solve"
    /\ \E root \in StartBoards \cup LateBoards : boards = <<root>>
    /\ won_boards = <<>>
    /\ lost_boards = <<>>
    /\ gens = <<>>
    /\ IdleBoard
    /\ IdleCanon
    /\ IdleHeap

\* solve, one iteration of `while boards:`
SolveIncrement ==
    /\ pc = "solve"
    /\ boards # <<>>
    /\ ~(/\ Len(gens) >= MaxGenerations
         /\ Cardinality({pos \in Positions : boards[1].pins[pos]}) > MaxRootPegs)
    /\ \E r \in {increment_boards(boards)} :
          /\ boards' = r.new_boards
          /\ won_boards' = extend_if_any(won_boards, r.won_boards)
          /\ lost_boards' = extend_if_any(lost_boards, r.lost_boards)
          /\ gens' = Append(gens, [given |-> boards, returned |-> r])
    /\ UNCHANGED <<pc, boardVars, canonVars, heapVars>>

\* solve, the loop's exit: save_boards(won_boards), save_boards(lost_boards)
SolveSave ==
    /\ pc = "solve"
    /\ boards = <<>>
    /\ pc' = "saved"
    /\ UNCHANGED <<searchVars, boardVars, canonVars, heapVars>>

NextSearch == SolveIncrement \/ SolveSave

SpecSearch == InitSearch /\ [][NextSearch]_vars

(***************************************************************************)
(* The canonicalizer: commands.findtransformations                         *)
(*                                                                         *)
(* A Configuration row is its id. unique_configurations holds              *)
(* <<configuration, board>> pairs; a Transformation row is a record.       *)
(***************************************************************************)
\* check_transformation's scan as it would be if only the first unique configuration
\* were compared
first_match_first_only(t_board, uniques, i) ==
    IF i > Len(uniques) \/ i > 1 THEN <<>>
    ELSE IF Board_eq(t_board.pins, uniques[i][2].pins) THEN <<uniques[i][1]>>
    ELSE <<>>

\* check_transformation, the scan: the configuration of the first unique board equal
\* to t_board, as <<unique_conf>>, or <<>> for None
RECURSIVE first_match(_, _, _)
first_match(t_board, uniques, i) ==
    IF i > Len(uniques) THEN <<>>
    ELSE IF Board_eq(t_board.pins, uniques[i][2].pins) THEN <<uniques[i][1]>>
    ELSE first_match(t_board, uniques, i + 1)

\* check_transformation: copy the board, transform the copy, scan the unique boards
check_transformation(board, tx, uniques) ==
    first_match([copy(board) EXCEPT !.pins = transform(board.pins, tx).pins],
                uniques, 1)

\* Transformation(...) as it would be with the two configurations exchanged
Transformation_reversed(matched_conf, working_conf, desc) ==
    [to_configuration |-> working_conf,
     from_configuration |-> matched_conf,
     desc |-> desc]

\* Transformation(to_configuration=matched_conf, from_configuration=working_conf, desc=desc)
Transformation(matched_conf, working_conf, desc) ==
    [to_configuration |-> matched_conf,
     from_configuration |-> working_conf,
     desc |-> desc]

\* findtransformations, the loop over valid_transformations for one working
\* configuration: every transformation that finds a match clears `unique` and adds a
\* Transformation row; the loop goes on to the next transformation after a match
RECURSIVE transformations_loop(_, _, _, _, _)
transformations_loop(working_conf, board, uniques, k, out) ==
    IF k > Len(valid_transformations) THEN out
    ELSE LET matched_conf ==
                 check_transformation(board, valid_transformations[k].tx, uniques)
         IN  IF matched_conf # <<>>
             THEN transformations_loop(working_conf, board, uniques, k + 1,
                      [unique |-> FALSE,
                       added |-> Append(out.added,
                                        Transformation(matched_conf[1], working_conf,
                                                       valid_transformations[k].desc))])
             ELSE transformations_loop(working_conf, board, uniques, k + 1, out)

\* findtransformations, the body of the loop over the configurations
find_working(working_conf, uniques) ==
    LET board == from_configuration_id(working_conf)
    IN  IF uniques # <<>>
        THEN transformations_loop(working_conf, board, uniques, 1,
                                  [unique |-> TRUE, added |-> <<>>])
        ELSE [unique |-> TRUE, added |-> <<>>]

\* The transformations table's primary key is (from_configuration_id,
\* to_configuration_id): session.commit() fails on two rows with the same key
PrimaryKeyClash(rows) ==
    \E i, j \in DOMAIN rows :
        /\ i < j
        /\ rows[i].from_configuration = rows[j].from_configuration
        /\ rows[i].to_configuration = rows[j].to_configuration

\* How many configurations the query returns at most
MaxConfigurations == 3

\* The configurations in the database: the starting configuration of a solve run for
\* every empty position, and the first generation of the run with the default one
CanonConfigs ==
    {configuration_id(b.pins) : b \in StartBoards} \cup
    {configuration_id(b.pins) :
        b \in Range(increment_boards(
                        <<Board_new(DefaultEmptyPosition, <<>>)>>).new_boards)}

\* findtransformations: unique_configurations = [], before the first configuration
InitCanon ==
    /\ pc = "find"
    /\ configurations = <<>>
    /\ idx = 0
    /\ unique_configurations = <<>>
    /\ transformations = <<>>
    /\ IdleBoard
    /\ IdleSearch
    /\ IdleHeap

\* findtransformations, one iteration of `for working_conf in bar`; configurations is
\* the part of session.query(Configuration).all() iterated so far, its ids distinct
FindWorking ==
    /\ pc = "find"
    /\ Len(configurations) < MaxConfigurations
    /\ \E working_conf \in CanonConfigs \ {configurations[i] : i \in DOMAIN configurations} :
          \E r \in {find_working(working_conf, unique_configurations)} :
              /\ configurations' = Append(configurations, working_conf)
              /\ idx' = idx + 1
              /\ transformations' = transformations \o r.added
              /\ unique_configurations' =
                    IF r.unique
                    THEN Append(unique_configurations,
                                <<working_conf, from_configuration_id(working_conf)>>)
                    ELSE unique_configurations
    /\ UNCHANGED <<pc, boardVars, searchVars, heapVars>>

\* findtransformations, after the last configuration: session.commit()
FindCommit ==
    /\ pc = "find"
    /\ pc' = IF PrimaryKeyClash(transformations) THEN "commit_failed" ELSE "committed"
    /\ UNCHANGED <<canonVars, boardVars, searchVars, heapVars>>

NextCanon == FindWorking \/ FindCommit

SpecCanon == InitCanon /\ [][NextCanon]_vars

(***************************************************************************)
(* Claims about the search                                                 *)
(***************************************************************************)
\* The rule-table triples available on pins p, and p after the jump t
AvailableTriples(p) == {t \in RuleTriples : p[t[1]] /\ ~p[t[2]] /\ p[t[3]]}

Jumped(p, t) == [p EXCEPT ![t[1]] = FALSE, ![t[3]] = FALSE, ![t[2]] = TRUE]

Indices(seq, x) == {i \in DOMAIN seq : seq[i] = x}

\* What one call of increment_boards must have returned for the frontier it was given
GenerationStepOk(given, returned) ==
    LET children == returned.won_boards \o returned.new_boards
        stuck == {i \in DOMAIN given : AvailableTriples(given[i].pins) = {}}
    IN  \* the dead-end list is the frontier boards without an available move, in order
        /\ Len(returned.lost_boards) = Cardinality(stuck)
        /\ \A k \in DOMAIN returned.lost_boards :
              \E i \in stuck :
                  /\ Cardinality({j \in stuck : j <= i}) = k
                  /\ returned.lost_boards[k] = given[i]
        \* every child is a copy of a frontier board with one available move applied,
        \* and it is in the won list exactly when it has one peg
        /\ \A i \in DOMAIN children :
              /\ Len(children[i].previous_board) = 1
              /\ children[i].previous_board[1] \in Range(given)
              /\ \E t \in AvailableTriples(children[i].previous_board[1].pins) :
                    children[i].pins = Jumped(children[i].previous_board[1].pins, t)
              /\ (i <= Len(returned.won_boards)) <=> (PegCount(children[i].pins) = 1)
        \* every frontier board has exactly one child per available move
        /\ \A b \in Range(given) :
              \A t \in AvailableTriples(b.pins) :
                  Cardinality({i \in DOMAIN children :
                                  /\ children[i].previous_board = <<b>>
                                  /\ children[i].pins = Jumped(b.pins, t)})
                  = Cardinality(Indices(given, b))
        \* a board without moves has no child
        /\ \A b \in Range(given) :
              AvailableTriples(b.pins) = {} =>
                  ~\E i \in DOMAIN children : children[i].previous_board = <<b>>

\* C4: a generation step puts every frontier board without available moves in the
\* dead-end list and gives it no child, gives every other frontier board exactly one
\* child per available move (a copy with the move applied), puts a child in the won
\* list iff it has exactly one peg and in the next frontier otherwise, and returns no
\* other board.
C4_GenerationStep ==
    gens # <<>> =>
        LET last == gens[Len(gens)]
        IN  (\A b \in Range(last.given) : PegCount(b.pins) # 1) =>
                GenerationStepOk(last.given, last.returned)

\* A generation step that returned dead ends and a next frontier, followed by one that
\* returned dead ends and won boards
C4_Witness ==
    \E g, h \in DOMAIN gens :
        /\ g < h
        /\ Len(gens[g].given) > 1
        /\ gens[g].returned.lost_boards # <<>>
        /\ gens[g].returned.new_boards # <<>>
        /\ gens[h].returned.lost_boards # <<>>
        /\ gens[h].returned.won_boards # <<>>

RECURSIVE ConcatReturned(_, _, _)
ConcatReturned(history, field, g) ==
    IF g = 0 THEN <<>>
    ELSE ConcatReturned(history, field, g - 1) \o history[g].returned[field]

\* C5: the run ends exactly when the frontier is empty after a generation step, and
\* its result is the won boards and the dead-end boards of every generation step of
\* the run, not only of the last one.
C5_SolveResult ==
    /\ pc = "saved" =>
          /\ gens # <<>>
          /\ boards = <<>>
          /\ gens[Len(gens)].returned.new_boards = <<>>
          /\ \A g \in 1..(Len(gens) - 1) : gens[g].returned.new_boards # <<>>
          /\ won_boards = ConcatReturned(gens, "won_boards", Len(gens))
          /\ lost_boards = ConcatReturned(gens, "lost_boards", Len(gens))
    /\ (pc = "solve" /\ boards = <<>>) => (ENABLED SolveSave /\ ~ENABLED SolveIncrement)
    /\ (pc = "solve" /\ boards # <<>>) => ~ENABLED SolveSave

\* A finished run whose dead ends come from two generations and whose last
\* generation produced won boards
C5_Witness ==
    /\ pc = "saved"
    /\ won_boards # <<>>
    /\ \E g, h \in DOMAIN gens :
          g < h /\ gens[g].returned.lost_boards # <<>>
                /\ gens[h].returned.lost_boards # <<>>

(***************************************************************************)
(* Claims about the canonicalizer                                          *)
(***************************************************************************)
\* Transformation k takes pins p to pins q: q at every `to` position is p at the
\* paired `from` position
Maps(k, p, q) ==
    \A i \in DOMAIN valid_transformations[k].tx :
        q[valid_transformations[k].tx[i][2]] = p[valid_transformations[k].tx[i][1]]

UniqueConfs == {unique_configurations[i][1] : i \in DOMAIN unique_configurations}

PinsOf(conf) == from_configuration_id(conf).pins

EdgesFrom(conf) ==
    {i \in DOMAIN transformations : transformations[i].from_configuration = conf}

\* The first transformation, in the fixed order, that maps the board of working_conf
\* to the board of a configuration in the set
FirstMatching(working_conf, confs) ==
    CHOOSE k \in 1..NumTransformations :
        /\ \E u \in confs : Maps(k, PinsOf(working_conf), PinsOf(u))
        /\ \A h \in 1..(k - 1) :
              ~\E u \in confs : Maps(h, PinsOf(working_conf), PinsOf(u))

\* C6: a working configuration that matches an existing unique configuration gets
\* only one transformation edge, even if several of the five transformations match,
\* and the edge is labelled with the first matching transformation of the fixed order.
C6_OneEdgeFirstWins ==
    \A c \in Range(configurations) :
        c \notin UniqueConfs =>
            /\ Cardinality(EdgesFrom(c)) = 1
            /\ \A i \in EdgesFrom(c) :
                  transformations[i].desc =
                      valid_transformations[FirstMatching(c, UniqueConfs)].desc

\* C7: no two members of unique_configurations are related by any of the five
\* transformations.
C7_UniquesUnrelated ==
    \A i, j \in DOMAIN unique_configurations :
        i # j =>
            \A k \in 1..NumTransformations :
                ~Maps(k, unique_configurations[i][2].pins,
                         unique_configurations[j][2].pins)

\* Three configurations were processed: two are unique, and the third one, related to
\* the second unique configuration, is not
C7_Witness ==
    /\ Len(unique_configurations) = 2
    /\ Len(configurations) = 3
    /\ \E i \in DOMAIN transformations :
          transformations[i].to_configuration = unique_configurations[2][1]

\* C8: every processed configuration that is not in unique_configurations has an edge
\* from it labelled with a transformation that maps its board to the board of the
\* edge's target, and the target of every edge is in unique_configurations.
C8_EdgesLeadToUniques ==
    /\ \A c \in Range(configurations) :
          c \notin UniqueConfs =>
              \E i \in EdgesFrom(c) :
                  \E k \in 1..NumTransformations :
                      /\ transformations[i].desc = valid_transformations[k].desc
                      /\ Maps(k, PinsOf(c), PinsOf(transformations[i].to_configuration))
    /\ \A i \in DOMAIN transformations :
          /\ transformations[i].to_configuration \in UniqueConfs
          /\ transformations[i].from_configuration \notin UniqueConfs

\* A configuration that is not unique was processed after two unique ones
C8_Witness ==
    /\ Len(unique_configurations) >= 2
    /\ \E c \in Range(configurations) : c \notin UniqueConfs /\ EdgesFrom(c) # {}

\* C9: for a board A and its reflection B, the canonicalizer run over [A, B] ends with
\* unique_configurations = [A] and exactly one edge, (from = B, to = A, "Reflection").
C9_ReflectionPair ==
    (/\ Len(configurations) = 2
     /\ Maps(1, PinsOf(configurations[1]), PinsOf(configurations[2]))) =>
        /\ unique_configurations =
              <<<<configurations[1], from_configuration_id(configurations[1])>>>>
        /\ transformations =
              <<[to_configuration |-> configurations[1],
                 from_configuration |-> configurations[2],
                 desc |-> "Reflection"]>>

(***************************************************************************)
(* Board.transform called with substitution lists that are not one of the  *)
(* five tables                                                             *)
(***************************************************************************)
\* Substitution lists a caller can pass: the five tables, the empty list, lists that
\* leave positions out, lists that repeat a previous or a new position, a table without
\* its last pair, and lists with a position out of range after a valid pair
PairLists ==
    {valid_transformations[k].tx : k \in 1..NumTransformations}
    \cup { <<>>,
           << <<0, 1>> >>,
           << <<0, 1>>, <<0, 2>> >>,
           << <<0, 2>>, <<1, 2>> >>,
           SubSeq(valid_transformations[1].tx, 1, NumPositions - 1),
           << <<0, 1>>, <<MaxPosition + 1, 0>> >>,
           << <<1, 0>>, <<0, 0 - 1>> >> }

\* board.transform(position_substitutions) with any of these lists
TransformPairs ==
    /\ pc = "board" /\ call.op = "none"
    /\ \E position_substitutions \in PairLists :
          \E r \in {transform(pins, position_substitutions)} :
              /\ pins' = r.pins
              /\ call' = [op |-> "transform_pairs", args |-> position_substitutions,
                          raised |-> r.raised, ret |-> <<>>]
    /\ UNCHANGED <<pins0, pc, searchVars, canonVars, heapVars>>

NextPairs == TransformPairs

\* One call of transform, with a valid or an invalid list, on a board of any occupancy
SpecPairs == InitBoard /\ [][NextPairs]_vars

\* A list of pairs is a permutation of the positions when every position is the
\* previous position of exactly one pair and the new position of exactly one pair
IsPermutation(position_substitutions) ==
    \A pos \in Positions :
        /\ Cardinality({i \in DOMAIN position_substitutions :
                           position_substitutions[i][1] = pos}) = 1
        /\ Cardinality({i \in DOMAIN position_substitutions :
                           position_substitutions[i][2] = pos}) = 1

\* C11: transform(pairs) raises ValueError whenever the pairs are not a permutation of
\* the 15 positions (a position missing or repeated as a previous or as a new position),
\* and then leaves the board as it was.
C11_NonPermutationRejected ==
    (call.op = "transform_pairs" /\ ~IsPermutation(call.args)) =>
        (call.raised /\ pins = pins0)

(***************************************************************************)
(* The persisted encoding: int(str(board), 2) and from_configuration_id    *)
(***************************************************************************)
\* The 15-bit configuration ids
ConfIds == 0..(2^NumPositions - 1)

\* int(str(board), 2) on a board of any occupancy
Encode ==
    /\ pc = "board" /\ call.op = "none"
    /\ call' = [op |-> "encode", args |-> <<>>, raised |-> FALSE,
                ret |-> <<configuration_id(pins)>>]
    /\ UNCHANGED <<pins, pins0, pc, searchVars, canonVars, heapVars>>

\* Board.from_configuration_id(x) with x the id just computed from the board
DecodeEncoded ==
    /\ pc = "board" /\ call.op = "encode"
    /\ pins' = from_configuration_id(call.ret[1]).pins
    /\ call' = [op |-> "encode_decode", args |-> call.ret, raised |-> FALSE, ret |-> <<>>]
    /\ UNCHANGED <<pins0, pc, searchVars, canonVars, heapVars>>

\* Board.from_configuration_id(conf_id) for any 15-bit conf_id: board = cls() is the
\* default board, and every pin of it is then set from the key
FromConfigurationId ==
    /\ pc = "board" /\ call.op = "none"
    /\ pins = Board_init(DefaultEmptyPosition)
    /\ \E conf_id \in ConfIds :
          /\ pins' = from_configuration_id(conf_id).pins
          /\ call' = [op |-> "decode", args |-> <<conf_id>>, raised |-> FALSE,
                      ret |-> <<>>]
    /\ UNCHANGED <<pins0, pc, searchVars, canonVars, heapVars>>

\* int(str(board), 2) on the board from_configuration_id returned
EncodeDecoded ==
    /\ pc = "board" /\ call.op = "decode"
    /\ call' = [op |-> "decode_encode", args |-> call.args, raised |-> FALSE,
                ret |-> <<configuration_id(pins)>>]
    /\ UNCHANGED <<pins, pins0, pc, searchVars, canonVars, heapVars>>

NextEncode == Encode \/ DecodeEncoded \/ FromConfigurationId \/ EncodeDecoded

\* A board encoded and decoded again, and an id decoded and encoded again
SpecEncode == InitBoard /\ [][NextEncode]_vars

\* The number whose bit 14 - pos is set when position pos is occupied, from pos on
RECURSIVE BitValue(_, _)
BitValue(p, pos) ==
    IF pos > MaxPosition THEN 0
    ELSE (IF p[pos] THEN 2^(MaxPosition - pos) ELSE 0) + BitValue(p, pos + 1)

\* C12: for every x in [0, 2^15), int(str(Board.from_configuration_id(x)), 2) = x, where
\* position 0 is the most significant bit; and for every board b,
\* from_configuration_id(int(str(b), 2)) equals b.
C12_EncodingRoundTrip ==
    /\ call.op = "decode_encode" =>
          (call.ret = call.args /\ call.ret[1] = BitValue(pins, 0))
    /\ call.op = "encode" => call.ret[1] = BitValue(pins, 0)
    /\ call.op = "encode_decode" => (Board_eq(pins, pins0) /\ Board_eq(pins0, pins))

\* An id whose bits are not a palindrome was decoded and encoded again, or a board
\* that is not the default board was encoded and decoded again
C12_Witness ==
    \/ /\ call.op = "decode_encode"
       /\ call.args = <<2^MaxPosition + 2>>
       /\ pins[0] /\ pins[MaxPosition - 1] /\ ~pins[MaxPosition]
    \/ /\ call.op = "encode_decode"
       /\ call.args = <<1>>
       /\ pins[MaxPosition] /\ PegCount(pins) = 1

(***************************************************************************)
(* Claims about the boards a search returns                                *)
(***************************************************************************)
\* Following previous_board from the board visits d further boards, each one jump of
\* the rule table before the next, and ends at the root, which has no previous_board
RECURSIVE ChainToRoot(_, _, _)
ChainToRoot(board, d, root) ==
    IF d = 0 THEN board = root /\ board.previous_board = <<>>
    ELSE /\ Len(board.previous_board) = 1
         /\ \E t \in AvailableTriples(board.previous_board[1].pins) :
               board.pins = Jumped(board.previous_board[1].pins, t)
         /\ ChainToRoot(board.previous_board[1], d - 1, root)

\* The number of previous_board links from the board to a board without one
RECURSIVE ChainLength(_)
ChainLength(board) ==
    IF board.previous_board = <<>> THEN 0 ELSE 1 + ChainLength(board.previous_board[1])

\* C13: every won board and every dead-end board of a search keeps its predecessor
\* chain: from a terminal board produced at generation d, previous_board leads through
\* d further boards to the root (previous_board None), and every board of the chain is
\* its predecessor with exactly one available jump of the rule table applied.
C13_PredecessorChain ==
    gens # <<>> =>
        LET g == Len(gens)
            root == gens[1].given[1]
        IN  \* a won board returned by step g was produced at generation g
            /\ \A i \in DOMAIN gens[g].returned.won_boards :
                  ChainToRoot(gens[g].returned.won_boards[i], g, root)
            \* a dead end returned by step g was in the frontier given to step g
            /\ \A i \in DOMAIN gens[g].returned.lost_boards :
                  ChainToRoot(gens[g].returned.lost_boards[i], g - 1, root)
            \* and the accumulated results are these boards, links included
            /\ \A i \in DOMAIN won_boards :
                  ChainToRoot(won_boards[i], ChainLength(won_boards[i]), root)
            /\ \A i \in DOMAIN lost_boards :
                  ChainToRoot(lost_boards[i], ChainLength(lost_boards[i]), root)

\* A finished search with a won board and a dead end, each three or more jumps from the
\* root
C13_Witness ==
    /\ pc = "saved"
    /\ \E i \in DOMAIN won_boards : ChainLength(won_boards[i]) >= 3
    /\ \E i \in DOMAIN lost_boards : ChainLength(lost_boards[i]) >= 3

(***************************************************************************)
(* Board objects and their _pins dictionaries: Board.copy and the calls    *)
(* that mutate a board                                                     *)
(*                                                                         *)
(* objects[o] is a Board: pins is the index in dicts of its _pins          *)
(* dictionary, previous_board is 0 for None or the index of a Board.       *)
(* `copy` above is this method on values, for the search, where no board   *)
(* is mutated after it was copied.                                         *)
(***************************************************************************)
\* Board.copy as it would be if the new board were given the original's dictionary
Board_copy_shares_pins(objs, dcts, self) ==
    [objects |-> Append(objs, [pins |-> objs[self].pins,
                               empty_position |-> objs[self].empty_position,
                               previous_board |-> self]),
     dicts |-> dcts]

\* Board.copy: Board(self.empty_position, previous_board=self) makes a new dictionary,
\* and every pin of it is then set to the status self has at that position
Board_copy(objs, dcts, self) ==
    [objects |-> Append(objs, [pins |-> Len(dcts) + 1,
                               empty_position |-> objs[self].empty_position,
                               previous_board |-> self]),
     dicts |-> Append(dcts, [position \in Positions |->
                                IF position \in DOMAIN dcts[objs[self].pins]
                                THEN dcts[objs[self].pins][position]
                                ELSE Board_init(objs[self].empty_position)[position]])]

\* How many Board objects and how many mutating calls a run has
MaxObjects == 3

MaxCalls == 2

\* board = Board(empty_position)
InitCopy ==
    /\ pc = "heap"
    /\ \E empty_position \in InRangeArgs \cup {DefaultEmptyPosition} :
          /\ objects = <<[pins |-> 1, empty_position |-> empty_position,
                          previous_board |-> 0]>>
          /\ dicts = <<Board_init(empty_position)>>
    /\ calls = 0
    /\ IdleBoard
    /\ IdleSearch
    /\ IdleCanon

\* objects[1].copy(): the board built first is the one that is copied
CopyBoard ==
    /\ pc = "heap"
    /\ Len(objects) < MaxObjects
    /\ \E self \in {1} :
          \E r \in {Board_copy(objects, dicts, self)} :
              /\ objects' = r.objects
              /\ dicts' = r.dicts
              /\ call' = [op |-> "copy", args |-> <<self>>, raised |-> FALSE,
                          ret |-> <<Len(r.objects)>>]
    /\ UNCHANGED <<pins, pins0, pc, calls, searchVars, canonVars>>

\* objects[self].set_pin_status(position, status)
SetPinStatusOn ==
    /\ pc = "heap"
    /\ calls < MaxCalls
    /\ \E self \in DOMAIN objects, position \in InRangeArgs, status \in BOOLEAN :
          /\ dicts' = IF validate_position(position)
                      THEN [dicts EXCEPT ![objects[self].pins] =
                                set_pin_status(@, position, status)]
                      ELSE dicts
          /\ call' = [op |-> "set_pin_status", args |-> <<self, position, status>>,
                      raised |-> ~validate_position(position), ret |-> <<>>]
    /\ calls' = calls + 1
    /\ UNCHANGED <<pins, pins0, pc, objects, searchVars, canonVars>>

\* objects[self].move(start, end, jump) with a triple of objects[self].moves()
MoveOn ==
    /\ pc = "heap"
    /\ calls < MaxCalls
    /\ \E self \in DOMAIN objects :
          \E available \in {moves(dicts[objects[self].pins])} :
              \E i \in DOMAIN available :
                  \E r \in {move(dicts[objects[self].pins], available[i][1],
                                 available[i][2], available[i][3])} :
                      /\ dicts' = [dicts EXCEPT ![objects[self].pins] = r.pins]
                      /\ call' = [op |-> "move", args |-> <<self>> \o available[i],
                                  raised |-> r.raised, ret |-> <<>>]
    /\ calls' = calls + 1
    /\ UNCHANGED <<pins, pins0, pc, objects, searchVars, canonVars>>

\* objects[self].transform(tx) with one of the five tables
TransformOn ==
    /\ pc = "heap"
    /\ calls < MaxCalls
    /\ \E self \in DOMAIN objects, k \in 1..NumTransformations :
          \E r \in {transform(dicts[objects[self].pins], Substitutions(k))} :
              /\ dicts' = [dicts EXCEPT ![objects[self].pins] = r.pins]
              /\ call' = [op |-> "transform", args |-> <<self, k>>,
                          raised |-> r.raised, ret |-> <<>>]
    /\ calls' = calls + 1
    /\ UNCHANGED <<pins, pins0, pc, objects, searchVars, canonVars>>

NextCopy == CopyBoard \/ SetPinStatusOn \/ MoveOn \/ TransformOn

\* Copies of a board, and mutating calls on the board and on its copies, in any order
SpecCopy == InitCopy /\ [][NextCopy]_vars

\* The occupancy of a Board object
ObjectPins(o) == dicts[objects[o].pins]

\* C14: copy() returns a new board with the occupancy of the original and previous_board
\* the original; a set_pin_status, move or transform call on a board (the original or a
\* copy) changes the occupancy of no other board, so the original is as it was after
\* any calls on its copies, and a copy is as it was after calls on the original.
C14_CopyIndependent ==
    [][ /\ call'.op = "copy" =>
              /\ Len(objects') = Len(objects) + 1
              /\ \A o \in DOMAIN objects :
                    objects'[o] = objects[o] /\ ObjectPins(o)' = ObjectPins(o)
              /\ dicts'[objects'[Len(objects')].pins] = ObjectPins(call'.args[1])
              /\ objects'[Len(objects')].previous_board = call'.args[1]
        /\ call'.op \in {"set_pin_status", "move", "transform"} =>
              /\ objects' = objects
              /\ \A o \in DOMAIN objects :
                    o # call'.args[1] => ObjectPins(o)' = ObjectPins(o)
      ]_vars

\* Two copies of the first board; one copy was changed, then the first board was
\* changed, and the three boards now differ from each other
C14_Witness ==
    /\ Len(objects) = 3
    /\ objects[2].previous_board = 1 /\ objects[3].previous_board = 1
    /\ call.op = "move" /\ call.args[1] = 1 /\ ~call.raised
    /\ calls = 2
    /\ ObjectPins(1) # ObjectPins(2)
    /\ ObjectPins(1) # ObjectPins(3)
    /\ ObjectPins(2) # ObjectPins(3)

(***************************************************************************)
(* Building a board, and the calls on a board just built                   *)
(***************************************************************************)
\* Board(empty_position): _validate_position raises ValueError for a position outside
\* 0..14; otherwise the pins are set
Board_construct(empty_position) ==
    IF ~validate_position(empty_position)
    THEN [raised |-> TRUE, error |-> "ValueError", pins |-> <<>>]
    ELSE [raised |-> FALSE, error |-> "", pins |-> Board_init(empty_position)]

\* No board is built yet
InitConstruct ==
    /\ pc = "new"
    /\ IdleBoard
    /\ IdleSearch
    /\ IdleCanon
    /\ IdleHeap

\* board = Board(empty_position), with any position and the integers next to the range
Construct ==
    /\ pc = "new"
    /\ \E empty_position \in Positions \cup OutOfRangeArgs :
          \E r \in {Board_construct(empty_position)} :
              /\ pins' = IF r.raised THEN pins ELSE r.pins
              /\ pins0' = pins'
              /\ pc' = IF r.raised THEN "failed" ELSE "built"
              /\ call' = [op |-> "Board", args |-> <<empty_position>>,
                          raised |-> r.raised, ret |-> <<r.error>>]
    /\ UNCHANGED <<searchVars, canonVars, heapVars>>

\* board.is_won()
IsWon ==
    /\ pc = "built" /\ call.op \in {"Board", "set_pin_status"}
    /\ call' = [op |-> "is_won", args |-> <<>>, raised |-> FALSE, ret |-> <<is_won(pins)>>]
    /\ UNCHANGED <<pins, pins0, pc, searchVars, canonVars, heapVars>>

\* board.set_pin_status(position, status) on the board just built
SetPinStatus ==
    /\ pc = "built" /\ call.op = "Board"
    /\ \E position \in Positions \cup OutOfRangeArgs, status \in BOOLEAN :
          /\ pins' = IF validate_position(position)
                     THEN set_pin_status(pins, position, status) ELSE pins
          /\ call' = [op |-> "set_pin_status", args |-> <<position, status>>,
                      raised |-> ~validate_position(position), ret |-> <<>>]
    /\ UNCHANGED <<pins0, pc, searchVars, canonVars, heapVars>>

\* Board.valid_moves_for_position(position)
ValidMovesForPosition ==
    /\ pc = "built" /\ call.op = "Board"
    /\ \E position \in Positions \cup OutOfRangeArgs :
          call' = [op |-> "valid_moves_for_position", args |-> <<position>>,
                   raised |-> ~validate_position(position),
                   ret |-> IF validate_position(position)
                           THEN valid_moves_for_position(position) ELSE <<>>]
    /\ UNCHANGED <<pins, pins0, pc, searchVars, canonVars, heapVars>>

NextConstruct == Construct \/ IsWon \/ SetPinStatus \/ ValidMovesForPosition

\* A board is built, and is_won, set_pin_status or valid_moves_for_position is called
SpecConstruct == InitConstruct /\ [][NextConstruct]_vars

\* What Board(empty_position) does, with the name of the error it fails with
ConstructContract(error) ==
    /\ call.op = "Board" =>
          LET empty_position == call.args[1]
          IN  /\ call.raised <=> ~(0 <= empty_position /\ empty_position <= 14)
              /\ call.raised => (call.ret = <<error>> /\ pc = "failed")
              /\ ~call.raised =>
                    /\ pins[empty_position] = FALSE
                    /\ \A pos \in Positions \ {empty_position} : pins[pos] = TRUE
                    /\ PegCount(pins) = 14
    /\ (call.op = "is_won" /\ pins = pins0) => call.ret = <<FALSE>>

\* C15: Board(empty_position) fails with RangeError unless 0 <= empty_position <= 14;
\* for every valid empty_position p the board has p empty and the other 14 positions
\* occupied, and is_won() is false on it.
C15_ConstructRangeError == ConstructContract("RangeError")

\* C15 as amended: the error Board(empty_position) fails with is ValueError
C15_ConstructValueError == ConstructContract("ValueError")

\* is_won() was called on a board just built with an empty position other than the
\* default
C15_Witness ==
    /\ call.op = "is_won" /\ pins = pins0 /\ call.ret = <<FALSE>>
    /\ ~pins[0] /\ PegCount(pins) = 14

(***************************************************************************)
(* The geometry of the layout, for the claim about the rule table          *)
(***************************************************************************)
\* The layout has rows of 5, 4, 3, 2 and 1 positions; row r starts half a position
\* further right than row r - 1
NumRows == 5

RowLength(r) == NumRows - r

RECURSIVE RowStart(_)
RowStart(r) == IF r = 0 THEN 0 ELSE RowStart(r - 1) + RowLength(r - 1)

Slots == {rc \in (0..(NumRows - 1)) \X (0..(NumRows - 1)) : rc[2] < RowLength(rc[1])}

PositionAt(rc) == RowStart(rc[1]) + rc[2]

\* The six directions to an adjacent slot: along the row, and along the two diagonals
Directions == { <<0, 1>>, <<0, 0 - 1>>, <<1, 0>>, <<0 - 1, 0>>, <<1, 0 - 1>>, <<0 - 1, 1>> }

Shift(rc, dir, n) == <<rc[1] + n * dir[1], rc[2] + n * dir[2]>>

\* The (start, end, jump) triples of three consecutive adjacent slots on one line,
\* starting at the position
GeometricTriples(position) ==
    {<<position, PositionAt(Shift(rc, dir, 2)), PositionAt(Shift(rc, dir, 1))>> :
        <<rc, dir>> \in {x \in Slots \X Directions :
                           /\ PositionAt(x[1]) = position
                           /\ Shift(x[1], x[2], 1) \in Slots
                           /\ Shift(x[1], x[2], 2) \in Slots}}

\* C19: valid_moves_for_position(p) is the set of all triples (p, e, j) such that p, j, e
\* are three consecutive adjacent slots on one straight line of the 5-4-3-2-1 layout (a
\* row or one of the two diagonal directions); the table has 36 triples and contains
\* (e, s, j) whenever it contains (s, e, j).
C19_RuleTableIsGeometry ==
    (call.op = "valid_moves_for_position" /\ ~call.raised) =>
        LET table == UNION {Range(valid_moves_for_position(p)) : p \in Positions}
        IN  /\ Range(call.ret) = GeometricTriples(call.args[1])
            /\ Len(call.ret) = Cardinality(Range(call.ret))
            /\ Cardinality(table) = 36
            /\ \A t \in table : <<t[2], t[1], t[3]>> \in table

\* The table was read for a position in the middle of an edge, which has four jumps
C19_Witness ==
    /\ call.op = "valid_moves_for_position" /\ ~call.raised
    /\ call.args = <<9>>
    /\ Len(call.ret) = 4
    /\ <<9, 14, 12>> \in Range(call.ret)

(***************************************************************************)
(* Whole runs of commands.solve and of core.find_solutions from the 15     *)
(* starting boards                                                         *)
(*                                                                         *)
(* The lists of such a run hold up to a million boards, many of them with  *)
(* the same pins. Here a list is kept as a bag: for each occupancy, how    *)
(* many boards of the list have it; the order of a list and the            *)
(* previous_board of its boards are left out (they are in SpecSearch).     *)
(***************************************************************************)
\* The boards of a list, each counted n times, as a bag of their pins
BagOfBoards(list, n) ==
    [p \in {list[i].pins : i \in DOMAIN list} |->
        n * Cardinality({i \in DOMAIN list : list[i].pins = p})]

NoCounts == [new_boards |-> EmptyBag, won_boards |-> EmptyBag, lost_boards |-> EmptyBag]

\* core.increment_boards' body as it would be without the is_won test: every copy is
\* appended to new_boards
core_increment_board_all_new(board) ==
    IF Len(moves(board.pins)) < 1 THEN NoBoards
    ELSE LET r == increment_moves(board, moves(board.pins), 1, NoBoards)
         IN  [r EXCEPT !.new_boards = r.won_boards \o r.new_boards, !.won_boards = <<>>]

\* core.increment_boards, the body of the loop for one board: a board without moves is
\* skipped, every move gives a copy that is appended to won_boards or new_boards
core_increment_board(board) ==
    IF Len(moves(board.pins)) < 1 THEN NoBoards
    ELSE increment_moves(board, moves(board.pins), 1, NoBoards)

\* The loop body of increment_boards for the n boards of the frontier that have the
\* pins p: what they append to the three lists (in_core: core.increment_boards)
increment_counted_board(p, n, in_core) ==
    LET board == [Board_new(DefaultEmptyPosition, <<>>) EXCEPT !.pins = p]
    IN  CHOOSE out \in
            {[new_boards |-> BagOfBoards(r.new_boards, n),
              won_boards |-> BagOfBoards(r.won_boards, n),
              lost_boards |-> BagOfBoards(r.lost_boards, n)] :
                 r \in {IF in_core THEN core_increment_board(board)
                                   ELSE increment_board(board)}} : TRUE

\* The loop of increment_boards over the boards of the frontier whose pins are in S.
\* S is split by the status of position pos, so that the appends of a long frontier
\* are added up in halves.
RECURSIVE increment_counted(_, _, _, _)
increment_counted(frontier, S, pos, in_core) ==
    IF S = {} THEN NoCounts
    ELSE IF Cardinality(S) = 1
    THEN increment_counted_board(CHOOSE p \in S : TRUE, frontier[CHOOSE p \in S : TRUE],
                                 in_core)
    ELSE CHOOSE out \in
             {[new_boards |-> l.new_boards (+) r.new_boards,
               won_boards |-> l.won_boards (+) r.won_boards,
               lost_boards |-> l.lost_boards (+) r.lost_boards] :
                  l \in {increment_counted(frontier, {p \in S : ~p[pos]}, pos + 1, in_core)},
                  r \in {increment_counted(frontier, {p \in S : p[pos]}, pos + 1, in_core)}}
             : TRUE

\* Whether a call board.move(start, end, jump) of the loop raises for some board
increment_raises(frontier) ==
    \E p \in BagToSet(frontier) :
        \E available \in {moves(p)} :
            \E i \in DOMAIN available :
                move(p, available[i][1], available[i][2], available[i][3]).raised

\* solve: if new_won_boards: won_boards.extend(new_won_boards), on bags
extend_counted_if_any(accumulated, new_list) ==
    IF new_list # EmptyBag THEN accumulated (+) new_list ELSE accumulated

\* solve(empty_position) or core.find_solutions(Board(empty_position)), for any of the
\* 15 empty positions: boards = [board], nothing won or lost yet
InitRun ==
    /\ pc \in {"run_solve", "run_find_solutions"}
    /\ \E empty_position \in Positions :
          boards = SetToBag({Board_new(empty_position, <<>>).pins})
    /\ won_boards = EmptyBag
    /\ lost_boards = EmptyBag
    /\ gens = <<>>
    /\ IdleBoard
    /\ IdleCanon
    /\ IdleHeap

\* solve, one iteration of `while boards:` with the whole frontier
RunSolveIncrement ==
    /\ pc = "run_solve"
    /\ boards # EmptyBag
    /\ IF increment_raises(boards)
       THEN /\ pc' = "run_raised"
            /\ UNCHANGED searchVars
       ELSE \E r \in {increment_counted(boards, BagToSet(boards), 0, FALSE)} :
               /\ boards' = r.new_boards
               /\ won_boards' = extend_counted_if_any(won_boards, r.won_boards)
               /\ lost_boards' = extend_counted_if_any(lost_boards, r.lost_boards)
               /\ gens' = Append(gens, [given |-> boards, returned |-> r])
               /\ pc' = pc
    /\ UNCHANGED <<boardVars, canonVars, heapVars>>

\* solve, the loop's exit: the results are saved
RunSolveSave ==
    /\ pc = "run_solve"
    /\ boards = EmptyBag
    /\ pc' = "run_saved"
    /\ UNCHANGED <<searchVars, boardVars, canonVars, heapVars>>

\* core.find_solutions, one iteration of `while len(boards) > 0:`; won_boards is
\* assigned what this call of core.increment_boards returned
RunFindSolutionsIncrement ==
    /\ pc = "run_find_solutions"
    /\ BagCardinality(boards) > 0
    /\ IF increment_raises(boards)
       THEN /\ pc' = "run_raised"
            /\ UNCHANGED searchVars
       ELSE \E r \in {increment_counted(boards, BagToSet(boards), 0, TRUE)} :
               /\ boards' = r.new_boards
               /\ won_boards' = r.won_boards
               /\ gens' = Append(gens, [given |-> boards, returned |-> r])
               /\ pc' = pc
               /\ UNCHANGED lost_boards
    /\ UNCHANGED <<boardVars, canonVars, heapVars>>

\* core.find_solutions: return won_boards
RunFindSolutionsReturn ==
    /\ pc = "run_find_solutions"
    /\ ~(BagCardinality(boards) > 0)
    /\ pc' = "run_returned"
    /\ UNCHANGED <<searchVars, boardVars, canonVars, heapVars>>

NextRun ==
    \/ RunSolveIncrement
    \/ RunSolveSave
    \/ RunFindSolutionsIncrement
    \/ RunFindSolutionsReturn

\* The whole search from each of the 15 starting boards, by solve and by find_solutions
SpecRun == InitRun /\ [][NextRun]_vars

(***************************************************************************)
(* Claims about whole runs                                                 *)
(***************************************************************************)
\* The last generation step of the run
LastGen == gens[Len(gens)]

\* C16: the search from a root built with any valid empty position ends without an
\* error: no call of the loop raises, and the frontier is empty after at most 13
\* generation steps.
C16_SearchTerminates ==
    /\ pc # "run_raised"
    /\ Len(gens) <= 13
    /\ Len(gens) = 13 => boards = EmptyBag
    /\ pc \in {"run_saved", "run_returned"} => boards = EmptyBag

\* A run of solve has ended, after 13 generation steps
C16_Witness ==
    /\ pc = "run_saved"
    /\ Len(gens) = 13
    /\ boards = EmptyBag
    /\ won_boards # EmptyBag

\* C17: in a search from a root built with a valid empty position every board of the
\* dead-end list has no available move and more than one peg, every board of the won
\* list has exactly one peg, and no board with exactly one peg is ever in a frontier.
C17_TerminalBoards ==
    /\ \A p \in BagToSet(boards) : PegCount(p) # 1
    /\ gens # <<>> =>
          /\ \A p \in BagToSet(LastGen.given) : PegCount(p) # 1
          /\ \A p \in BagToSet(LastGen.returned.lost_boards) :
                AvailableTriples(p) = {} /\ PegCount(p) > 1
          /\ \A p \in BagToSet(LastGen.returned.won_boards) : PegCount(p) = 1
    /\ pc = "run_saved" =>
          /\ \A p \in BagToSet(lost_boards) : AvailableTriples(p) = {} /\ PegCount(p) > 1
          /\ \A p \in BagToSet(won_boards) : PegCount(p) = 1

\* A run of solve has ended with dead ends of different numbers of pegs and with won
\* boards
C17_Witness ==
    /\ pc = "run_saved"
    /\ won_boards # EmptyBag
    /\ \E p, q \in BagToSet(lost_boards) : PegCount(p) + 3 < PegCount(q)

\* How many boards with the pins c the boards of a frontier give as children: one per
\* available jump that leads to c, for every board of the frontier
RECURSIVE ChildCount(_, _, _)
ChildCount(given, S, c) ==
    IF S = {} THEN 0
    ELSE LET p == CHOOSE q \in S : TRUE
         IN  given[p] * Cardinality({t \in AvailableTriples(p) : Jumped(p, t) = c})
             + ChildCount(given, S \ {p}, c)

\* The one-peg boards that the boards of a frontier give as children, as a bag
WonChildren(given) ==
    LET parents == {p \in BagToSet(given) : PegCount(p) = 2}
        won == {c \in {Jumped(p, t) : <<p, t>> \in
                          {x \in parents \X RuleTriples : x[2] \in AvailableTriples(x[1])}} :
                   PegCount(c) = 1}
    IN  [c \in won |-> ChildCount(given, parents, c)]

\* The won boards produced in the generation steps 1..g of the run
RECURSIVE WonProduced(_)
WonProduced(g) ==
    IF g = 0 THEN EmptyBag ELSE WonProduced(g - 1) (+) WonChildren(gens[g].given)

C20_PegCountPerGeneration ==
    gens # <<>> =>
        LET d == Len(gens)
        IN  /\ \A p \in BagToSet(LastGen.given) : PegCount(p) = 14 - (d - 1)
            /\ \A p \in BagToSet(LastGen.returned.new_boards)
                          \cup BagToSet(LastGen.returned.won_boards) :
                  PegCount(p) = 14 - d
            /\ LastGen.returned.won_boards # EmptyBag => d = 13
            /\ \A g \in 1..d :
                  BagToSet(gens[g].given) \cap
                      (BagToSet(LastGen.returned.new_boards)
                          \cup BagToSet(LastGen.returned.won_boards)) = {}

\* Generation 13 of a run produced won boards, and an earlier generation left several
\* occupancies in the frontier
C20_Witness ==
    /\ Len(gens) = 13
    /\ LastGen.returned.won_boards # EmptyBag
    /\ Cardinality(BagToSet(gens[7].given)) > 100

(***************************************************************************)
(* A transformation and a move, in both orders                             *)
(***************************************************************************)
\* The new position that a list of substitutions pairs with a previous position
new_position(position_substitutions, prev_pos) ==
    position_substitutions[CHOOSE i \in DOMAIN position_substitutions :
                              position_substitutions[i][1] = prev_pos][2]

\* A (start, end, jump) triple with each position replaced by its new position
substituted(position_substitutions, triple) ==
    <<new_position(position_substitutions, triple[1]),
      new_position(position_substitutions, triple[2]),
      new_position(position_substitutions, triple[3])>>

\* board.moves(), then board.transform(tx) with one of the five tables, then
\* board.moves() again
TransformMoves ==
    /\ pc = "board" /\ call.op = "none"
    /\ \E k \in 1..NumTransformations :
          \E r \in {transform(pins, Substitutions(k))} :
              /\ pins' = r.pins
              /\ call' = [op |-> "transform_moves", args |-> <<k>>, raised |-> r.raised,
                          ret |-> [before |-> moves(pins), after |-> moves(r.pins)]]
    /\ UNCHANGED <<pins0, pc, searchVars, canonVars, heapVars>>

\* On the transformed board, board.move with the substituted triple of a move that was
\* available before; and on a board as it was before, the move and then transform(tx):
\* ret holds the pins that this other order leaves
MoveTransformed ==
    /\ pc = "board" /\ call.op = "transform_moves"
    /\ \E i \in DOMAIN call.ret.before :
          \E triple \in {substituted(Substitutions(call.args[1]), call.ret.before[i])} :
              \E r \in {move(pins, triple[1], triple[2], triple[3])} :
                  /\ pins' = r.pins
                  /\ call' = [op |-> "transform_move",
                              args |-> <<call.args[1], call.ret.before[i], triple>>,
                              raised |-> r.raised,
                              ret |-> <<transform(
                                          move(pins0, call.ret.before[i][1],
                                               call.ret.before[i][2],
                                               call.ret.before[i][3]).pins,
                                          Substitutions(call.args[1])).pins>>]
    /\ UNCHANGED <<pins0, pc, searchVars, canonVars, heapVars>>

NextSymmetry == TransformMoves \/ MoveTransformed

\* A transformation of a board of any occupancy, with the moves before and after it
SpecSymmetry == InitBoard /\ [][NextSymmetry]_vars

\* C21: for each of the five transformations t, as a map from previous to new
\* positions, and every board b, the available moves of t(b) are the triples
\* (t(s), t(e), t(j)) of the moves (s, e, j) of b, and the move (t(s), t(e), t(j)) on
\* t(b) leaves the occupancy that t leaves on b after the move (s, e, j).
C21_SymmetryPreservesGame ==
    /\ call.op = "transform_moves" =>
          /\ ~call.raised
          /\ Range(call.ret.after) =
                {substituted(Substitutions(call.args[1]), m) : m \in Range(call.ret.before)}
          /\ Len(call.ret.after) = Len(call.ret.before)
    /\ call.op = "transform_move" =>
          /\ ~call.raised
          /\ pins = call.ret[1]

\* A move was made on a transformed board that differs from the board before, with a
\* triple that differs from the one it stands for
C21_Witness ==
    /\ call.op = "transform_move" /\ ~call.raised
    /\ call.args[2] # call.args[3]
    /\ pins = call.ret[1]
    /\ PegCount(pins) = PegCount(pins0) - 1
    /\ PegCount(pins0) > 7

(***************************************************************************)
(* Claims about the five tables as a whole                                 *)
(***************************************************************************)
\* The position maps of the five tables, and of no transformation at all for k = 0
PositionMaps ==
    [k \in 0..NumTransformations |->
        [pos \in Positions |->
            IF k = 0 THEN pos ELSE new_position(valid_transformations[k].tx, pos)]]

\* For two tables, the k3 whose position map is that of table k1 followed by table k2
\* (0 for the identity); no such k3 is shown by NumTransformations + 1
Composition ==
    [k1 \in 1..NumTransformations, k2 \in 1..NumTransformations |->
        LET both == [pos \in Positions |-> PositionMaps[k2][PositionMaps[k1][pos]]]
        IN  IF \E k3 \in 0..NumTransformations : PositionMaps[k3] = both
            THEN CHOOSE k3 \in 0..NumTransformations : PositionMaps[k3] = both
            ELSE NumTransformations + 1]

TablesArePermutations ==
    \A k \in 1..NumTransformations : IsPermutation(valid_transformations[k].tx)

\* Some one of the five tables takes pins p to pins q
Related(p, q) == \E k \in 1..NumTransformations : Maps(k, p, q)

\* What the tables are claimed to be, but for transitivity: each is a permutation of
\* the positions, two of them applied one after the other are the identity or one of
\* the five, and `related` is symmetric
TablesClosed ==
    call.op = "transform" =>
        /\ ~call.raised
        /\ TablesArePermutations
        /\ Len(call.args) = 1 => (Related(pins0, pins) /\ Related(pins, pins0))
        /\ (Len(call.args) = 2 /\ call.args[2] <= NumTransformations) =>
              LET k3 == Composition[call.args[1], call.args[2]]
              IN  /\ k3 <= NumTransformations
                  /\ \A pos \in Positions : pins[PositionMaps[k3][pos]] = pins0[pos]

\* C22: each of the five tables is a permutation of the positions 0..14, and the five
\* with the identity are closed under composition, so that `related by some
\* transformation` is a symmetric and transitive relation on configurations.
C22_TablesClosedTransitive ==
    /\ TablesClosed
    /\ (call.op = "transform" /\ Len(call.args) = 2
            /\ call.args[2] <= NumTransformations) =>
          Related(pins0, pins)

\* C22 as amended: transitive but for equal configurations: if a is related to b and b
\* to c, then a and c are equal or a is related to c
C22_TablesClosedUpToEquality ==
    /\ TablesClosed
    /\ (call.op = "transform" /\ Len(call.args) = 2
            /\ call.args[2] <= NumTransformations) =>
          (pins = pins0 \/ Related(pins0, pins))

\* Two different tables were applied to a board that no table leaves as it is, and the
\* result is a third board
C22_Witness ==
    /\ call.op = "transform" /\ Len(call.args) = 2
    /\ call.args[2] <= NumTransformations
    /\ call.args[1] # call.args[2]
    /\ ~Related(pins0, pins0)
    /\ pins # pins0
    /\ Related(pins0, pins)
    /\ ~Maps(call.args[1], pins0, pins)

(***************************************************************************)
(* Claims about a call of move that fails                                  *)
(***************************************************************************)
\* C23: a move that raises leaves the board unchanged: whenever move(start, end, jump)
\* raises (a position outside 0..14, start empty, end occupied or jump empty), all 15
\* positions have the occupancy they had before the call.
C23_FailedMoveChangesNothing ==
    call.op = "move" =>
        LET start == call.args[1]
            end == call.args[2]
            jump == call.args[3]
            out_of_range == ~(Range(call.args) \subseteq Positions)
        IN  /\ out_of_range => call.raised
            /\ (~out_of_range /\ (~pins0[start] \/ pins0[end] \/ ~pins0[jump])) =>
                  call.raised
            /\ call.raised => \A pos \in Positions : pins[pos] = pins0[pos]

\* A move raised for a position out of range on a board where the other two positions
\* would have allowed it, or raised for an occupied end with start and jump occupied
C23_Witness ==
    /\ call.op = "move" /\ call.raised
    /\ pins = pins0
    /\ \/ /\ call.args[3] = MaxPosition + 1
          /\ pins0[call.args[1]] /\ ~pins0[call.args[2]]
       \/ /\ Range(call.args) \subseteq Positions
          /\ Cardinality(Range(call.args)) = 3
          /\ pins0[call.args[1]] /\ pins0[call.args[2]] /\ pins0[call.args[3]]

====
